---- MODULE Spec2Model ----
(***************************************************************************)
(* Streaming session of the price monitor (src/stare.py, src/newstare.py). *)
(*                                                                         *)
(* One PriceMonitor owns one background thread that runs one coroutine:    *)
(* okx_websocket_connect / binance_websocket_connect (stare.py) or         *)
(* websocket_connect (newstare.py).  quit_app runs in the GUI thread.      *)
(*                                                                         *)
(* Time is counted in whole seconds.  time.time() is not stored; every     *)
(* value the code derives from it is kept as a clock that Tick advances:   *)
(*   silence = time.time() - last_msg_time                                 *)
(*   timer   = time spent in the current wait_for / asyncio.sleep          *)
(* Code between two awaits takes no time.                                  *)
(***************************************************************************)
EXTENDS Integers, Sequences, FiniteSets, TLC

\* ---- program constants -------------------------------------------------
RecvTimeout == 5
PingAfter == 20
ErrSleep == 1
DeadLink == 30
RetryDelay == 5
Heartbeat == 20
KB == 1024
MBThreshold == 1024

\* ---- bounds of the model -----------------------------------------------
SilenceCap == 36
CountCap == 2
MaxUpdates == 2
MaxTraffic == 4
MaxHistoryPoints == 2

Min(a, b) == IF a < b THEN a ELSE b

VARIABLES
    exchange,      \* self.exchange: "okx" | "binance"
    variant,       \* which program: "stare" | "newstare"
    running,       \* self.running
    loop,          \* self.loop: "none" | "running" | "closed" | "stopped"
    stopping,      \* the event loop's stop request (loop.stop() was called)
    ws,            \* self.ws is set
    closeTask,     \* a ws.close() task was handed to the loop by quit_app
    conn,          \* the connection of the current async-with: "none" | "open" | "closed"
    pc,            \* position of the coroutine
    timer,         \* seconds spent in the current timed wait
    silence,       \* time.time() - last_msg_time, saturating at SilenceCap
    timeouts,      \* receive timeouts since the last frame, saturating at CountCap
    probes,        \* {"op":"ping"} frames sent since the last frame, saturating
    sinceAbandon,  \* seconds since a connection (attempt) was last abandoned
    sinceStop,     \* seconds since quit_app first ran, saturating
    stops,         \* calls of quit_app so far, saturating at CountCap
    traffic_bytes, \* self.traffic_bytes (stare.py)
    traffic_label, \* the text of self.traffic_label (stare.py)
    updates,       \* the self.after(0, self.update_label_safe, ...) calls made
    price_history, \* self.price_history (newstare.py)
    timestamp_history, \* self.timestamp_history (newstare.py)
    stamp_due,     \* the ticker whose handler stands between its two appends
    chart,         \* per instrument, the <<times, prices>> the last update_chart read
    maxlen,        \* maxlen of the deques of self.price_history
    gui,           \* position of the GUI thread: "viewer" | "rejected" | "created" | "monitoring"
    selection,     \* the instruments checked in the tree when monitoring is started
    subscription,  \* the channels named by the last subscribe frame sent
    subscribes     \* subscribe frames sent on the connection of the current async-with

vars == <<exchange, variant, running, loop, stopping, ws, closeTask, conn, pc,
          timer, silence, timeouts, probes, sinceAbandon, sinceStop, stops,
          traffic_bytes, traffic_label, updates, price_history, timestamp_history,
          stamp_due, chart, maxlen, gui, selection, subscription, subscribes>>

\* ---- instrument identifiers (strings, as sequences of characters) -------
BTC_USDT_SWAP == <<"B","T","C","-","U","S","D","T","-","S","W","A","P">>
ETHUSDT == <<"E","T","H","U","S","D","T">>
DOGE_USDT == <<"D","O","G","E","-","U","S","D","T">>
BTCUSDT == <<"B","T","C","U","S","D","T">>
BTC_USDT == <<"B","T","C","-","U","S","D","T">>

\* self.selected_pairs
selected_pairs == <<BTC_USDT_SWAP, ETHUSDT, BTC_USDT>>

\* ---- Python values ------------------------------------------------------
\* A float is the whole number of steps of 0.00005 it holds: 1.0 is Unit.
Unit == 20000

\* float("nan"); every comparison with it is false
NaN == 2147483647

\* the strings float() accepts
Numeric == {"-1", "0", "1", "2", "nan", "0.00005", "0.0001", "0.99995",
            "999.99995", "1000", "90", "100", "110"}

\* float(s) for the strings in Numeric
Float(s) ==
    CASE s = "-1" -> 0 - Unit
      [] s = "0" -> 0
      [] s = "1" -> Unit
      [] s = "2" -> 2 * Unit
      [] s = "nan" -> NaN
      [] s = "0.00005" -> Unit \div 20000
      [] s = "0.0001" -> Unit \div 10000
      [] s = "0.99995" -> Unit - Unit \div 20000
      [] s = "999.99995" -> 1000 * Unit - Unit \div 20000
      [] s = "1000" -> 1000 * Unit
      [] s = "90" -> 90 * Unit
      [] s = "100" -> 100 * Unit
      [] s = "110" -> 110 * Unit

Gt(a, b) == a # NaN /\ b # NaN /\ a > b

Ge(a, b) == a # NaN /\ b # NaN /\ a >= b

Sub(a, b) == IF a = NaN \/ b = NaN THEN NaN ELSE a - b

\* dict.get(k, d)
Get(t, k, d) == IF k \in DOMAIN t THEN t[k] ELSE d

\* str.replace(pat, "") on a character sequence
RECURSIVE Remove(_, _)
Remove(s, pat) ==
    IF Len(s) < Len(pat) \/ pat = <<>> THEN s
    ELSE IF SubSeq(s, 1, Len(pat)) = pat
         THEN Remove(SubSeq(s, Len(pat) + 1, Len(s)), pat)
         ELSE <<s[1]>> \o Remove(Tail(s), pat)

\* a format_price whose class limits belong to the lower class
format_price_Strict(price) ==
    IF Gt(price, 1000 * Unit) THEN [decimals |-> 2, grouping |-> TRUE]
    ELSE IF Gt(price, Unit) THEN [decimals |-> 4, grouping |-> FALSE]
    ELSE IF Gt(price, Unit \div 10000) THEN [decimals |-> 6, grouping |-> FALSE]
    ELSE [decimals |-> 8, grouping |-> FALSE]

\* format_price (stare.py), lines 295-302 of handle_ticker_update
\* (newstare.py): the format specification applied to the price
format_price(price) ==
    IF Ge(price, 1000 * Unit) THEN [decimals |-> 2, grouping |-> TRUE]
    ELSE IF Ge(price, Unit) THEN [decimals |-> 4, grouping |-> FALSE]
    ELSE IF Ge(price, Unit \div 10000) THEN [decimals |-> 6, grouping |-> FALSE]
    ELSE [decimals |-> 8, grouping |-> FALSE]

\* the colour calculate_change picks (the sign of change_pct)
ChangeColor(last_price, open_price) ==
    IF Gt(open_price, 0)
    THEN IF Gt(Sub(last_price, open_price), 0) THEN "green" ELSE "red"
    ELSE "black"

\* a calculate_change that marks every change that is not a rise as a fall
calculate_change_TwoWay(last_price, open_price) ==
    IF Gt(open_price, 0)
    THEN LET num == IF Sub(last_price, open_price) = NaN THEN NaN
                    ELSE Sub(last_price, open_price) * 100
         IN  [percent |-> <<num, open_price>>,
              sign |-> IF Gt(num, 0) THEN "+" ELSE "-",
              color |-> ChangeColor(last_price, open_price)]
    ELSE [percent |-> <<>>, sign |-> "", color |-> ChangeColor(last_price, open_price)]

\* a calculate_change that divides whatever the open price is
calculate_change_Always(last_price, open_price) ==
    LET num == IF Sub(last_price, open_price) = NaN THEN NaN
               ELSE Sub(last_price, open_price) * 100
    IN  [percent |-> <<num, open_price>>,
         sign |-> IF Gt(num, 0) THEN "+" ELSE IF Gt(0, num) THEN "-" ELSE "",
         color |-> IF Gt(num, 0) THEN "green" ELSE "red"]

\* calculate_change (stare.py), lines 305-317 of handle_ticker_update
\* (newstare.py).  change_pct = (last - open) / open * 100 is kept as the
\* fraction <<(last - open) * 100, open>>, whose denominator is positive; the
\* sign is the one the text shows: "+" is written by the code, "-" by the
\* format of a negative number.  No percent is <<>>.
calculate_change(last_price, open_price) ==
    IF Gt(open_price, 0)
    THEN LET num == IF Sub(last_price, open_price) = NaN THEN NaN
                    ELSE Sub(last_price, open_price) * 100
         IN  [percent |-> <<num, open_price>>,
              sign |-> IF Gt(num, 0) THEN "+" ELSE IF Gt(0, num) THEN "-" ELSE "",
              color |-> ChangeColor(last_price, open_price)]
    ELSE [percent |-> <<>>, sign |-> "", color |-> ChangeColor(last_price, open_price)]

\* the arguments of update_label_safe: the pair, the parts of display_text
\* and the colour
DisplayUpdate(pair, last_price, open_price) ==
    [pair |-> pair, price |-> last_price, formatted |-> format_price(last_price),
     percent |-> calculate_change(last_price, open_price).percent,
     sign |-> calculate_change(last_price, open_price).sign,
     color |-> calculate_change(last_price, open_price).color]

\* deque(maxlen=...).append
max_history_points == 100

DequeAppend(q, x) ==
    IF Len(q) < maxlen THEN Append(q, x) ELSE Append(Tail(q), x)

\* ---- ticker handlers ----------------------------------------------------
\* Each handler yields the after() calls it makes (none when its try block
\* raised) and, for newstare.py, the new history.

\* a handler that schedules every label update twice
handle_okx_ticker_update_Twice(t) ==
    IF /\ {"instId", "last", "open24h", "high24h", "low24h"} \subseteq DOMAIN t
       /\ {t.last, t.open24h, t.high24h, t.low24h} \subseteq Numeric
    THEN <<DisplayUpdate(t.instId, Float(t.last), Float(t.open24h)),
           DisplayUpdate(t.instId, Float(t.last), Float(t.open24h))>>
    ELSE <<>>

\* stare.py handle_okx_ticker_update
handle_okx_ticker_update(t) ==
    IF /\ {"instId", "last", "open24h", "high24h", "low24h"} \subseteq DOMAIN t
       /\ {t.last, t.open24h, t.high24h, t.low24h} \subseteq Numeric
    THEN <<DisplayUpdate(t.instId, Float(t.last), Float(t.open24h))>>
    ELSE <<>>

\* str.upper() and str.lower() on a character sequence
UpperCase == <<"A","B","C","D","E","F","G","H","I","J","K","L","M",
               "N","O","P","Q","R","S","T","U","V","W","X","Y","Z">>

LowerCase == <<"a","b","c","d","e","f","g","h","i","j","k","l","m",
               "n","o","p","q","r","s","t","u","v","w","x","y","z">>

Translate(s, from, to) ==
    [i \in 1..Len(s) |->
        IF \E k \in 1..Len(from) : from[k] = s[i]
        THEN to[CHOOSE k \in 1..Len(from) : from[k] = s[i]]
        ELSE s[i]]

Upper(s) == Translate(s, LowerCase, UpperCase)

Lower(s) == Translate(s, UpperCase, LowerCase)

\* a frame reader that knows the flat form only
binance_message_tickers_FlatOnly(f) ==
    IF f.text # "json" THEN <<>>
    ELSE IF "e" \in DOMAIN f.obj /\ f.obj.e = "24hrTicker" THEN <<f.obj>>
    ELSE <<>>

\* a comparison of the symbol with the identifier as selected
cleaned_pair_Raw(original_pair) == original_pair

\* original_pair.replace('-', '').replace('SWAP', '').upper()
cleaned_pair(original_pair) ==
    Upper(Remove(Remove(original_pair, <<"-">>), <<"S","W","A","P">>))

\* the channels of the subscribe frame: the instId of each args entry
\* (Venue A), the params f"{pair.lower()}@ticker" (Venue B)
subscribe_params ==
    IF exchange = "okx" THEN selected_pairs
    ELSE [i \in 1..Len(selected_pairs) |->
             Lower(selected_pairs[i]) \o <<"@","t","i","c","k","e","r">>]

\* a handler that updates every selected instrument the symbol matches
handle_binance_ticker_update_All(t) ==
    LET symbol == Get(t, "s", <<>>)
        c == Get(t, "c", Get(t, "lastPrice", "0"))
        o == Get(t, "o", Get(t, "openPrice", "0"))
        hit(p) == cleaned_pair(p) = symbol
        shown(p) == DisplayUpdate(p, Float(c), Float(o))
        hits == SelectSeq(selected_pairs, hit)
    IN  IF {c, o} \subseteq Numeric THEN [i \in 1..Len(hits) |-> shown(hits[i])] ELSE <<>>

\* stare.py handle_binance_ticker_update
handle_binance_ticker_update(t) ==
    LET symbol == Get(t, "s", <<>>)
        hits == {i \in 1..Len(selected_pairs) : cleaned_pair(selected_pairs[i]) = symbol}
        c == Get(t, "c", Get(t, "lastPrice", "0"))
        o == Get(t, "o", Get(t, "openPrice", "0"))
        h == Get(t, "h", Get(t, "highPrice", "0"))
        l == Get(t, "l", Get(t, "lowPrice", "0"))
    IN  IF hits = {} THEN <<>>
        ELSE LET i == CHOOSE k \in hits : \A m \in hits : k <= m
             IN  IF {c, o, h, l} \subseteq Numeric
                 THEN <<DisplayUpdate(selected_pairs[i], Float(c), Float(o))>>
                 ELSE <<>>

\* newstare.py handle_ticker_update: does the try block reach the appends
ticker_accepted(t) ==
    /\ {"instId", "last", "open24h"} \subseteq DOMAIN t
    /\ {t.last, t.open24h} \subseteq Numeric
    /\ \E i \in 1..Len(selected_pairs) : selected_pairs[i] = t.instId

handle_ticker_update(t) ==
    IF ticker_accepted(t)
    THEN <<DisplayUpdate(t.instId, Float(t.last), Float(t.open24h))>>
    ELSE <<>>

history_after(h, t) ==
    IF ticker_accepted(t)
    THEN [h EXCEPT ![t.instId] = DequeAppend(@, Float(t.last))]
    ELSE h

\* ---- frames -------------------------------------------------------------
\* A text frame is its length, whether json.loads accepts it and, if so, the
\* decoded object; a dict is a function on the keys it has.
OkxTicker(t) == [type |-> "TEXT", len |-> 2, text |-> "json", obj |-> [data |-> <<t>>]]
OkxAck == [type |-> "TEXT", len |-> 1, text |-> "json", obj |-> [event |-> "subscribe"]]
OkxEmpty == [type |-> "TEXT", len |-> 1, text |-> "json", obj |-> [data |-> <<>>]]
Undecodable == [type |-> "TEXT", len |-> 1, text |-> "junk"]
OkxTwo(t1, t2) == [type |-> "TEXT", len |-> 3, text |-> "json", obj |-> [data |-> <<t1, t2>>]]

BinanceFlat(t) == [type |-> "TEXT", len |-> 2, text |-> "json", obj |-> t]
BinanceWrapped(t) == [type |-> "TEXT", len |-> 2, text |-> "json", obj |-> [data |-> t]]
BinanceAck == [type |-> "TEXT", len |-> 1, text |-> "json", obj |-> [id |-> "1"]]
BinanceClosed == [type |-> "CLOSED"]
BinanceError == [type |-> "ERROR"]

GoodOkx == [instId |-> BTC_USDT_SWAP, last |-> "2", open24h |-> "1", high24h |-> "2", low24h |-> "1"]
GoodBinance == [e |-> "24hrTicker", s |-> BTCUSDT, c |-> "2", o |-> "1", h |-> "2", l |-> "1"]
OtherOkx == [instId |-> ETHUSDT, last |-> "1", open24h |-> "2", high24h |-> "2", low24h |-> "1"]

\* the frames of the connection-lifecycle specification
LifecycleFrames ==
    IF exchange = "okx"
    THEN {OkxTicker(GoodOkx), OkxAck, Undecodable, OkxEmpty, OkxTwo(GoodOkx, OtherOkx)}
    ELSE {BinanceFlat(GoodBinance), BinanceAck, Undecodable, BinanceClosed, BinanceError}

\* lines 185-187 of okx_websocket_connect (251-253 of websocket_connect):
\* does json.loads or data['data'][0] raise
okx_message_raises(f) ==
    \/ f.text # "json"
    \/ "data" \in DOMAIN f.obj /\ Len(f.obj.data) = 0

\* the ticker handed to the handler, if any
okx_message_tickers(f) ==
    IF ~okx_message_raises(f) /\ "data" \in DOMAIN f.obj THEN <<f.obj.data[1]>> ELSE <<>>

\* lines 248-253 of binance_websocket_connect
binance_message_tickers(f) ==
    IF f.text # "json" THEN <<>>
    ELSE IF "e" \in DOMAIN f.obj /\ f.obj.e = "24hrTicker" THEN <<f.obj>>
    ELSE IF "data" \in DOMAIN f.obj THEN <<f.obj.data>>
    ELSE <<>>

\* ---- derived connection state ------------------------------------------
InReceiveLoop == pc \in {"inner_while", "recv", "err_sleep"}

Suspended == {"connecting", "subscribing", "recv", "err_sleep", "retry_sleep"}

Finished == {"done", "killed"}

connectionState ==
    CASE pc \in {"connect_call", "connecting", "subscribing"} -> "Connecting"
      [] InReceiveLoop -> IF timeouts = 0 THEN "Subscribed" ELSE "Degraded"
      [] OTHER -> "Disconnected"

\* the text of the traffic label as built: "0 KB"
initial_label == [value |-> 0, decimals |-> 0, unit |-> "KB"]

Programs == {<<"stare", "okx">>, <<"stare", "binance">>, <<"newstare", "okx">>}

Init ==
    /\ \E prog \in Programs : variant = prog[1] /\ exchange = prog[2]
    \* the CryptoDataViewer is up and no PriceMonitor exists yet; running is
    \* the value its constructor gives it
    /\ selection \in {<<>>, selected_pairs}
    /\ running = TRUE
    /\ loop = "none"
    /\ stopping = FALSE
    /\ ws = FALSE
    /\ closeTask = FALSE
    /\ conn = "none"
    /\ pc = "none"
    /\ timer = 0
    /\ silence = 0
    /\ timeouts = 0
    /\ probes = 0
    /\ sinceAbandon = RetryDelay
    /\ sinceStop = 0
    /\ stops = 0
    /\ traffic_bytes = 0
    /\ traffic_label = initial_label
    /\ updates = <<>>
    /\ price_history = [p \in {selected_pairs[i] : i \in 1..Len(selected_pairs)} |-> <<>>]
    /\ timestamp_history = price_history
    /\ stamp_due = <<>>
    /\ chart = price_history
    /\ maxlen = max_history_points
    /\ gui = "viewer"
    /\ subscription = <<>>
    /\ subscribes = 0

cfgVars == <<exchange, variant, maxlen, gui, selection>>
chartVars == <<timestamp_history, stamp_due, chart>>
dataVars == <<traffic_bytes, traffic_label, updates, price_history, chartVars, subscription,
              subscribes>>
hbVars == <<silence, timeouts, probes>>

\* the loop object once run_until_complete has returned or raised
loop_after_run == IF variant = "stare" THEN "closed" ELSE "stopped"

\* run_async_loop up to the first step of the coroutine
run_async_loop ==
    /\ pc = "start"
    /\ loop' = "running"
    /\ pc' = "outer_while"
    /\ UNCHANGED <<cfgVars, running, stopping, ws, closeTask, conn, timer, hbVars,
                   sinceAbandon, sinceStop, stops, dataVars>>

\* `while self.running:` of the reconnect loop
OuterWhile ==
    /\ pc = "outer_while"
    /\ IF running
       THEN pc' = "connect_call" /\ loop' = loop
       ELSE pc' = "done" /\ loop' = loop_after_run
    /\ UNCHANGED <<cfgVars, running, stopping, ws, closeTask, conn, timer, hbVars,
                   sinceAbandon, sinceStop, stops, dataVars>>

\* websockets.connect(...) / session.ws_connect(...) is called
StartConnect ==
    /\ pc = "connect_call"
    /\ pc' = "connecting"
    /\ timer' = 0
    /\ UNCHANGED <<cfgVars, running, loop, stopping, ws, closeTask, conn, hbVars,
                   sinceAbandon, sinceStop, stops, dataVars>>

\* a handler that returns instead of retrying
ExceptHandler_GiveUp ==
    /\ pc' = "done"
    /\ timer' = 0
    /\ conn' = "none"
    /\ sinceAbandon' = 0
    /\ silence' = 0 /\ timeouts' = 0 /\ probes' = 0

\* the `except Exception` of the reconnect loop
ExceptHandler ==
    /\ pc' = IF running THEN "retry_sleep" ELSE "outer_while"
    /\ timer' = 0
    /\ conn' = "none"
    /\ sinceAbandon' = 0
    /\ silence' = 0 /\ timeouts' = 0 /\ probes' = 0

\* leaving the async-with without an exception (break, or the inner loop ends)
LeaveConnection ==
    /\ pc' = "outer_while"
    /\ timer' = 0
    /\ conn' = "none"
    /\ sinceAbandon' = 0
    /\ silence' = 0 /\ timeouts' = 0 /\ probes' = 0

ConnectOK ==
    /\ pc = "connecting" /\ ~stopping
    /\ ws' = TRUE
    /\ conn' = "open"
    /\ pc' = "subscribing"
    /\ subscribes' = 0
    /\ UNCHANGED <<cfgVars, running, loop, stopping, closeTask, timer, hbVars,
                   sinceAbandon, sinceStop, stops, traffic_bytes, traffic_label,
                   updates, price_history, chartVars,
                   subscription>>

ConnectFail ==
    /\ pc = "connecting" /\ ~stopping
    /\ ExceptHandler
    /\ UNCHANGED <<cfgVars, running, loop, stopping, ws, closeTask, sinceStop, stops, dataVars>>

\* a session that starts receiving without having subscribed
SubscribeOK_Skip ==
    /\ pc = "subscribing" /\ ~stopping
    /\ pc' = IF exchange = "okx" THEN "inner_while" ELSE "recv"
    /\ timer' = 0
    /\ silence' = 0 /\ timeouts' = 0 /\ probes' = 0
    /\ UNCHANGED <<subscription, subscribes>>
    /\ UNCHANGED <<cfgVars, running, loop, stopping, ws, closeTask, conn,
                   sinceAbandon, sinceStop, stops, traffic_bytes, traffic_label,
                   updates, price_history, chartVars>>

\* the subscribe frame is sent; last_msg_time = time.time()
SubscribeOK ==
    /\ pc = "subscribing" /\ ~stopping
    /\ pc' = IF exchange = "okx" THEN "inner_while" ELSE "recv"
    /\ timer' = 0
    /\ silence' = 0 /\ timeouts' = 0 /\ probes' = 0
    /\ subscription' = subscribe_params
    /\ subscribes' = subscribes + 1
    /\ UNCHANGED <<cfgVars, running, loop, stopping, ws, closeTask, conn,
                   sinceAbandon, sinceStop, stops, traffic_bytes, traffic_label,
                   updates, price_history, chartVars>>

SubscribeFail ==
    /\ pc = "subscribing" /\ ~stopping
    /\ ExceptHandler
    /\ UNCHANGED <<cfgVars, running, loop, stopping, ws, closeTask, sinceStop, stops, dataVars>>

\* `while self.running:` of the receive loop (Venue A)
InnerWhile ==
    /\ pc = "inner_while" /\ stamp_due = <<>>
    /\ IF running
       THEN /\ pc' = "recv"
            /\ timer' = 0
            /\ UNCHANGED <<conn, sinceAbandon, hbVars>>
       ELSE LeaveConnection
    /\ UNCHANGED <<cfgVars, running, loop, stopping, ws, closeTask, sinceStop, stops, dataVars>>

\* a counter that keeps the size of the last frame only
update_traffic_stats_Last(bytes_count) ==
    IF variant = "stare" THEN bytes_count ELSE traffic_bytes

\* update_traffic_stats (stare.py only)
update_traffic_stats(bytes_count) ==
    IF variant = "stare" THEN traffic_bytes + bytes_count ELSE traffic_bytes

\* f"{n / d:.2f}" for whole n and a power of two d: the hundredths, the tie
\* going to the even digit (the quotient is exact in binary)
Fixed2(n, d) ==
    LET q == (n * 100) \div d
        r == (n * 100) % d
    IN  IF 2 * r > d \/ (2 * r = d /\ q % 2 = 1) THEN q + 1 ELSE q

\* a readout that compares the bytes, not the kilobytes, with 1024
traffic_readout_Bytes(bytes) ==
    IF bytes > MBThreshold
    THEN [value |-> Fixed2(bytes, KB * KB), decimals |-> 2, unit |-> "MB"]
    ELSE [value |-> Fixed2(bytes, KB), decimals |-> 2, unit |-> "KB"]

\* the text update_traffic_stats gives the label for a counter of `bytes`:
\* kb_traffic = bytes / 1024; above 1024 of them, kb_traffic / 1024 "MB"
traffic_readout(bytes) ==
    IF bytes > MBThreshold * KB
    THEN [value |-> Fixed2(bytes, KB * KB), decimals |-> 2, unit |-> "MB"]
    ELSE [value |-> Fixed2(bytes, KB), decimals |-> 2, unit |-> "KB"]

\* the label after update_traffic_stats (stare.py only)
update_traffic_label(bytes) ==
    IF variant = "stare" THEN traffic_readout(bytes) ELSE traffic_label

\* the counters the model lets a session reach: the first bytes, and the
\* bytes around one megabyte
TrafficWindow ==
    (0..MaxTraffic) \cup ((MBThreshold * KB - MaxTraffic)..(MBThreshold * KB + MaxTraffic))

\* the handler the Venue A loop calls on data['data'][0]
okx_handler(t) ==
    IF variant = "stare" THEN handle_okx_ticker_update(t) ELSE handle_ticker_update(t)

\* a check against the last-message time as it was before the frame
heartbeat_due_Stale(since) == silence > PingAfter

\* `if time.time() - last_msg_time > 20:` after a frame, line 190
heartbeat_due(since) == since > PingAfter

\* wait_for(ws.recv(), timeout=5) returns frame f (Venue A), lines 180-191
RecvOkx(f) ==
    /\ exchange = "okx"
    /\ pc = "recv" /\ conn = "open" /\ ~stopping
    /\ silence' = 0
    /\ timeouts' = 0
    /\ traffic_bytes' = update_traffic_stats(f.len)
    /\ traffic_label' = update_traffic_label(traffic_bytes')
    /\ timer' = 0
    /\ IF okx_message_raises(f)
       THEN /\ pc' = "err_sleep"
            /\ probes' = 0
            /\ UNCHANGED <<updates, price_history, stamp_due>>
       ELSE LET ts == okx_message_tickers(f)
            IN  /\ updates' = IF ts = <<>> THEN updates ELSE updates \o okx_handler(ts[1])
                /\ price_history' = IF ts = <<>> \/ variant = "stare" THEN price_history
                                    ELSE history_after(price_history, ts[1])
                \* the append of line 292 is a step of its own
                /\ stamp_due' = IF ts = <<>> \/ variant = "stare" \/ ~ticker_accepted(ts[1])
                                THEN <<>> ELSE <<ts[1]>>
                \* time.time() - last_msg_time > 20, last_msg_time just set
                /\ probes' = IF heartbeat_due(silence') THEN 1 ELSE 0
                /\ pc' = "inner_while"
    /\ traffic_bytes' \in TrafficWindow /\ Len(updates') <= MaxUpdates
    /\ UNCHANGED <<cfgVars, running, loop, stopping, ws, closeTask, conn,
                   sinceAbandon, sinceStop, stops, timestamp_history, chart, subscription,
                   subscribes>>

\* the datetime.now() appended for ticker t, named by the price it goes with
Stamp(t) == [of |-> Float(t.last)]

\* self.timestamp_history[pair].append(datetime.now()), newstare.py line 292:
\* the statement after the append of the price, in the session thread; the
\* rest of the handler touches nothing the chart reads
AppendTimestamp ==
    /\ stamp_due # <<>>
    /\ timestamp_history' = [timestamp_history EXCEPT
                                ![stamp_due[1].instId] = DequeAppend(@, Stamp(stamp_due[1]))]
    /\ stamp_due' = <<>>
    /\ UNCHANGED <<cfgVars, running, loop, stopping, ws, closeTask, conn, pc, timer, hbVars,
                   sinceAbandon, sinceStop, stops, traffic_bytes, traffic_label, updates,
                   price_history, chart, subscription, subscribes>>

\* update_chart, in the GUI thread, every max(1000, update_freq * 1000) ms
\* while self.running: for each instrument with more than one price, the
\* lists it reads at lines 173-174 and hands to ax.plot
update_chart ==
    /\ variant = "newstare" /\ gui = "monitoring" /\ running
    /\ chart' = [p \in DOMAIN price_history |->
                    IF Len(price_history[p]) > 1
                    THEN <<timestamp_history[p], price_history[p]>>
                    ELSE <<>>]
    /\ UNCHANGED <<cfgVars, running, loop, stopping, ws, closeTask, conn, pc, timer, hbVars,
                   sinceAbandon, sinceStop, stops, traffic_bytes, traffic_label, updates,
                   price_history, timestamp_history, stamp_due, subscription, subscribes>>

\* a timeout handler that sends no ping
TimeoutPing_NoPing(sent) ==
    /\ exchange = "okx"
    /\ pc = "recv" /\ conn = "open" /\ ~stopping
    /\ timer = RecvTimeout
    /\ pc' = "inner_while"
    /\ timer' = 0
    /\ timeouts' = Min(timeouts + 1, CountCap)
    /\ UNCHANGED <<cfgVars, running, loop, stopping, ws, closeTask, conn, sinceAbandon,
                   silence, probes, sinceStop, stops, dataVars>>

\* a timeout handler that keeps the connection when the ping cannot be sent
TimeoutPing_KeepOnFail(sent) ==
    /\ exchange = "okx"
    /\ pc = "recv" /\ conn = "open" /\ ~stopping
    /\ timer = RecvTimeout
    /\ pc' = "inner_while"
    /\ timer' = 0
    /\ timeouts' = Min(timeouts + 1, CountCap)
    /\ probes' = IF sent THEN Min(probes + 1, CountCap) ELSE probes
    /\ UNCHANGED <<conn, sinceAbandon, silence>>
    /\ UNCHANGED <<cfgVars, running, loop, stopping, ws, closeTask, sinceStop, stops, dataVars>>

\* asyncio.TimeoutError: the ping is sent (sent = TRUE) or the send raises
TimeoutPing(sent) ==
    /\ exchange = "okx"
    /\ pc = "recv" /\ conn = "open" /\ ~stopping
    /\ timer = RecvTimeout
    /\ IF sent
       THEN /\ pc' = "inner_while"
            /\ timer' = 0
            /\ timeouts' = Min(timeouts + 1, CountCap)
            /\ probes' = Min(probes + 1, CountCap)
            /\ UNCHANGED <<conn, sinceAbandon, silence>>
       ELSE LeaveConnection
    /\ UNCHANGED <<cfgVars, running, loop, stopping, ws, closeTask, sinceStop, stops, dataVars>>

\* the generic `except Exception` of the receive loop is entered by a
\* transport error of ws.recv(); the connection stays closed from then on
RecvRaises ==
    /\ exchange = "okx"
    /\ pc = "recv" /\ ~stopping
    /\ conn' = "closed"
    /\ pc' = "err_sleep"
    /\ timer' = 0
    /\ UNCHANGED <<cfgVars, running, loop, stopping, ws, closeTask, hbVars,
                   sinceAbandon, sinceStop, stops, dataVars>>

\* asyncio.sleep(1) of the generic handler is over, lines 202-206
ErrSleepDone ==
    /\ pc = "err_sleep" /\ ~stopping
    /\ timer = ErrSleep
    /\ IF silence > DeadLink
       THEN LeaveConnection
       ELSE /\ pc' = "inner_while"
            /\ timer' = 0
            /\ UNCHANGED <<conn, sinceAbandon, hbVars>>
    /\ UNCHANGED <<cfgVars, running, loop, stopping, ws, closeTask, sinceStop, stops, dataVars>>

\* asyncio.sleep(5) of the reconnect handler is over
RetrySleepDone ==
    /\ pc = "retry_sleep" /\ ~stopping
    /\ timer = RetryDelay
    /\ pc' = "outer_while"
    /\ timer' = 0
    /\ UNCHANGED <<cfgVars, running, loop, stopping, ws, closeTask, conn, hbVars,
                   sinceAbandon, sinceStop, stops, dataVars>>

\* `async for msg in ws` yields message f (Venue B), lines 244-255
RecvBinance(f) ==
    /\ exchange = "binance"
    /\ pc = "recv" /\ conn = "open" /\ ~stopping
    /\ IF f.type = "TEXT"
       THEN /\ traffic_bytes' = update_traffic_stats(f.len)
            /\ traffic_label' = update_traffic_label(traffic_bytes')
            /\ IF f.text # "json"
               THEN ExceptHandler /\ UNCHANGED updates
               ELSE LET ts == binance_message_tickers(f)
                    IN  /\ updates' = IF ts = <<>> THEN updates
                                      ELSE updates \o handle_binance_ticker_update(ts[1])
                        /\ pc' = "recv"
                        /\ timer' = 0
                        /\ UNCHANGED <<conn, sinceAbandon, hbVars>>
       ELSE \* ERROR or CLOSED: break
            /\ LeaveConnection
            /\ UNCHANGED <<traffic_bytes, traffic_label, updates>>
    /\ traffic_bytes' \in TrafficWindow /\ Len(updates') <= MaxUpdates
    /\ UNCHANGED <<cfgVars, running, loop, stopping, ws, closeTask, sinceStop, stops,
                   price_history, chartVars, subscription, subscribes>>

\* the stream raises instead of yielding (Venue B)
RecvErrorBinance ==
    /\ exchange = "binance"
    /\ pc = "recv" /\ conn = "open" /\ ~stopping
    /\ ExceptHandler
    /\ UNCHANGED <<cfgVars, running, loop, stopping, ws, closeTask, sinceStop, stops, dataVars>>

\* heartbeat=20 of ws_connect: the library's own ping timer fires
HeartbeatTimer ==
    /\ exchange = "binance"
    /\ pc = "recv" /\ conn = "open" /\ ~stopping
    /\ timer = Heartbeat
    /\ timer' = 0
    /\ UNCHANGED <<cfgVars, running, loop, stopping, ws, closeTask, conn, pc, hbVars,
                   sinceAbandon, sinceStop, stops, dataVars>>

\* a start_monitoring that does not look at the selection
start_monitoring_click_Unchecked(freq_ok) ==
    /\ gui = "viewer"
    /\ IF variant = "newstare" /\ ~freq_ok
       THEN gui' = "rejected" /\ pc' = pc
       ELSE /\ pc' = "start"
            /\ gui' = IF variant = "newstare" THEN "created" ELSE "monitoring"
    /\ UNCHANGED <<exchange, variant, maxlen, selection, running, loop, stopping, ws,
                   closeTask, conn, timer, hbVars, sinceAbandon, sinceStop, stops,
                   dataVars>>

\* start_monitoring up to the return of PriceMonitor(...): with nothing
\* selected, or (newstare.py) with an update frequency float() rejects
\* (freq_ok = FALSE), a warning is shown and no PriceMonitor is made;
\* otherwise the constructor starts the thread of run_async_loop.  newstare.py
\* still has the history size to apply.
start_monitoring_click(freq_ok) ==
    /\ gui = "viewer"
    /\ IF selection = <<>> \/ (variant = "newstare" /\ ~freq_ok)
       THEN gui' = "rejected" /\ pc' = pc
       ELSE /\ pc' = "start"
            /\ gui' = IF variant = "newstare" THEN "created" ELSE "monitoring"
    /\ UNCHANGED <<exchange, variant, maxlen, selection, running, loop, stopping, ws,
                   closeTask, conn, timer, hbVars, sinceAbandon, sinceStop, stops,
                   dataVars>>

\* the texts of the history points entry: <<int() accepts it, its value>>
HistoryEntries ==
    {<<TRUE, n>> : n \in (0 - 1)..MaxHistoryPoints} \cup {<<FALSE, 0>>}

\* a start_monitoring that applies every integer
start_monitoring_AnyInteger(history_points) ==
    /\ variant = "newstare" /\ gui = "created"
    /\ gui' = "monitoring"
    /\ IF history_points[1]
       THEN /\ maxlen' = history_points[2]
            /\ price_history' = [p \in DOMAIN price_history |-> <<>>]
            /\ timestamp_history' = [p \in DOMAIN timestamp_history |-> <<>>]
       ELSE UNCHANGED <<maxlen, price_history, timestamp_history>>
    /\ UNCHANGED <<exchange, variant, selection, running, loop, stopping, ws, closeTask,
                   conn, pc, timer, hbVars, sinceAbandon, sinceStop, stops, traffic_bytes,
                   traffic_label, updates, stamp_due, chart, subscription, subscribes>>

\* the rest of start_monitoring (newstare.py), in the GUI thread while the
\* session thread is already running: int(self.history_points.get()) and, if
\* it is positive, fresh deques of that size; a text int() rejects is passed
\* over
start_monitoring(history_points) ==
    /\ variant = "newstare" /\ gui = "created"
    /\ gui' = "monitoring"
    /\ IF history_points[1] /\ history_points[2] > 0
       THEN /\ maxlen' = history_points[2]
            /\ price_history' = [p \in DOMAIN price_history |-> <<>>]
            /\ timestamp_history' = [p \in DOMAIN timestamp_history |-> <<>>]
       ELSE UNCHANGED <<maxlen, price_history, timestamp_history>>
    /\ UNCHANGED <<exchange, variant, selection, running, loop, stopping, ws, closeTask,
                   conn, pc, timer, hbVars, sinceAbandon, sinceStop, stops, traffic_bytes,
                   traffic_label, updates, stamp_due, chart, subscription, subscribes>>

\* a quit_app that leaves the event loop running
quit_app_NoLoopStop ==
    /\ gui = "monitoring"
    /\ running' = FALSE
    /\ closeTask' = (closeTask \/ (ws /\ loop = "running"))
    /\ sinceStop' = IF running THEN 0 ELSE sinceStop
    /\ stops' = Min(stops + 1, CountCap)
    /\ UNCHANGED <<cfgVars, loop, stopping, ws, conn, pc, timer, hbVars, sinceAbandon,
                   dataVars>>

\* a quit_app that flips the flag
quit_app_Toggle ==
    /\ gui = "monitoring"
    /\ running' = ~running
    /\ closeTask' = (closeTask \/ (ws /\ loop = "running"))
    /\ stopping' = (stopping \/ loop # "none")
    /\ sinceStop' = IF running THEN 0 ELSE sinceStop
    /\ stops' = Min(stops + 1, CountCap)
    /\ UNCHANGED <<cfgVars, loop, ws, conn, pc, timer, hbVars, sinceAbandon, dataVars>>

\* quit_app, in the GUI thread (an event handler: start_monitoring has returned)
quit_app ==
    /\ gui = "monitoring"
    /\ running' = FALSE
    /\ closeTask' = (closeTask \/ (ws /\ loop = "running"))
    /\ stopping' = (stopping \/ loop # "none")
    /\ sinceStop' = IF running THEN 0 ELSE sinceStop
    /\ stops' = Min(stops + 1, CountCap)
    /\ UNCHANGED <<cfgVars, loop, ws, conn, pc, timer, hbVars, sinceAbandon, dataVars>>

\* loop.stop() takes effect: the event loop leaves run_until_complete at its
\* next wake-up, before the suspended coroutine is resumed
LoopStopped ==
    /\ stopping /\ loop = "running"
    /\ pc \in Suspended
    /\ pc' = "killed"
    /\ loop' = loop_after_run
    /\ UNCHANGED <<cfgVars, running, stopping, ws, closeTask, conn, timer, hbVars,
                   sinceAbandon, sinceStop, stops, dataVars>>

StopCap == Heartbeat + 1

\* one second passes; no timed wait is overrun
CanTick ==
    \/ pc = "connecting"
    \/ pc = "recv" /\ conn = "open"
          /\ timer < (IF exchange = "okx" THEN RecvTimeout ELSE Heartbeat)
    \/ pc = "err_sleep" /\ timer < ErrSleep
    \/ pc = "retry_sleep" /\ timer < RetryDelay

Tick ==
    /\ CanTick
    /\ timer' = IF pc \in {"recv", "err_sleep", "retry_sleep"} THEN timer + 1 ELSE timer
    /\ silence' = IF exchange = "okx" /\ InReceiveLoop
                  THEN Min(silence + 1, SilenceCap) ELSE silence
    /\ sinceAbandon' = Min(sinceAbandon + 1, RetryDelay)
    /\ sinceStop' = IF running THEN sinceStop ELSE Min(sinceStop + 1, StopCap)
    /\ UNCHANGED <<cfgVars, running, loop, stopping, ws, closeTask, conn, pc,
                   timeouts, probes, stops, dataVars>>

\* the transport fails while the coroutine waits in ws.recv() (Venue A)
TransportError == conn = "open" /\ RecvRaises

\* ws.recv() on a connection that has failed raises at once
RecvOnClosed == conn = "closed" /\ RecvRaises

Next ==
    \/ run_async_loop
    \/ OuterWhile
    \/ StartConnect
    \/ ConnectOK
    \/ ConnectFail
    \/ SubscribeOK
    \/ SubscribeFail
    \/ InnerWhile
    \/ \E f \in LifecycleFrames : RecvOkx(f)
    \/ AppendTimestamp
    \/ \E sent \in BOOLEAN : TimeoutPing(sent)
    \/ TransportError
    \/ RecvOnClosed
    \/ ErrSleepDone
    \/ RetrySleepDone
    \/ \E f \in LifecycleFrames : RecvBinance(f)
    \/ RecvErrorBinance
    \/ HeartbeatTimer
    \/ \E freq_ok \in BOOLEAN : start_monitoring_click(freq_ok)
    \/ \E e \in HistoryEntries : start_monitoring(e)
    \/ quit_app
    \/ LoopStopped
    \/ Tick

Spec == Init /\ [][Next]_vars

\* =========================================================================
\* Connection lifecycle (Spec)
\* =========================================================================

\* C1 (as claimed): a Venue A session never waits for a frame on a connection
\* whose silence exceeds the 30 s dead-link threshold by more than one receive
\* timeout, whatever the heartbeat sends did.
C1_DeadLinkAbandoned ==
    (exchange = "okx" /\ pc = "recv" /\ conn = "open") => silence <= DeadLink + RecvTimeout

\* C2 (as claimed): a connection attempt that follows an abandoned connection
\* or a failed attempt starts at least 5 s after it.
C2_DelayBeforeReconnect ==
    pc = "connect_call" => sinceAbandon >= RetryDelay

\* C4 (as claimed): once ws.recv() has raised a transport error, no receive
\* is attempted on that connection again.
C4_NoReceiveAfterTransportError ==
    ~(pc = "recv" /\ conn = "closed")

\* C5 (as claimed): once quit_app has run, running stays false and no
\* connection attempt is started.
C5_StopIsTerminal ==
    [][~running => (~running' /\ ~(pc = "connect_call" /\ pc' = "connecting"))]_vars

\* C6: after quit_app the receive loop is left within one timer period of the
\* loop (the 5 s receive timeout for Venue A, the 20 s heartbeat for Venue B),
\* whether or not a frame arrives.
C6_PromptExit ==
    (~running /\ InReceiveLoop) =>
        sinceStop <= (IF exchange = "okx" THEN RecvTimeout ELSE Heartbeat)

\* C6 witness: the loop was stopped while the coroutine waited in the receive
\* loop, some time after quit_app and without a frame having ended the wait.
C6_Witness ==
    /\ ~running /\ pc = "killed"
    /\ conn = "open" /\ timer > 0 /\ sinceStop > 0

\* C7: a second quit_app leaves the session as the first one left it: still
\* stopped, at the same position, on no other connection, with the same data.
C7_StopIdempotent ==
    [][(quit_app /\ ~running) =>
          /\ ~running'
          /\ <<pc, conn, ws, loop, closeTask, timer, hbVars, dataVars>>'
               = <<pc, conn, ws, loop, closeTask, timer, hbVars, dataVars>>
          /\ connectionState' = connectionState]_vars

\* C7 witness: quit_app has run twice on a session that waits for a frame.
C7_Witness == stops = 2 /\ ~running /\ ws /\ closeTask /\ pc = "recv"

\* C10 (as claimed): the first receive timeout of a Subscribed Venue A session
\* leaves it Degraded on the same connection with exactly one probe sent.
C10_ProbeKeepsConnection ==
    [][((\E sent \in BOOLEAN : TimeoutPing(sent)) /\ timeouts = 0) =>
          (connectionState' = "Degraded" /\ probes' = 1 /\ conn' = "open")]_vars

\* C10 (amended): while a Venue A session is still on its connection, 6 s
\* after the last frame exactly one receive timeout has fired and exactly one
\* probe has been sent (the instant at which a timeout is due excepted).
C10_OneProbeAtSixSeconds ==
    (/\ exchange = "okx" /\ pc = "recv" /\ conn = "open"
     /\ silence = RecvTimeout + 1 /\ timer < RecvTimeout)
        => (timeouts = 1 /\ probes = 1 /\ connectionState = "Degraded")

\* C10 witness: 6 s of silence on a connection, one probe out.
C10_Witness ==
    /\ exchange = "okx" /\ pc = "recv" /\ conn = "open"
    /\ silence = RecvTimeout + 1 /\ timer = 1 /\ probes = 1

\* C11 (as claimed): while a Venue A session is in the receive loop of a
\* connection and more than 20 s have passed since the last frame, at least
\* one ping has been sent on that connection since that frame.
C11_PingAfterTwentySeconds ==
    (exchange = "okx" /\ InReceiveLoop /\ silence > PingAfter) => probes >= 1

\* C14: self.traffic_bytes never decreases, changes only when a frame is
\* received, and every frame that json.loads accepts adds its length to it,
\* whether or not it carries a ticker; leaving a connection and connecting
\* again leaves it as it was.
C14_CounterAccumulates ==
    [][variant = "stare" =>
          /\ traffic_bytes' >= traffic_bytes
          /\ \A f \in LifecycleFrames :
                 ((RecvOkx(f) \/ RecvBinance(f)) /\ f.type = "TEXT" /\ f.text = "json")
                     => traffic_bytes' = traffic_bytes + f.len
          /\ (~ \E f \in LifecycleFrames : RecvOkx(f) \/ RecvBinance(f))
                 => traffic_bytes' = traffic_bytes]_vars

\* C14 witness: a frame of size 2 with a ticker and a frame of size 1 without
\* one were counted (3), the connection was left and the next attempt is
\* under way.
C14_Witness ==
    /\ variant = "stare" /\ traffic_bytes = 3 /\ Len(updates) = 1
    /\ ws /\ pc = "connecting"

\* C18 (as claimed): every channel of the Venue B subscribe frame is the
\* lower-cased cleaned form of the selected instrument (the form inbound
\* symbols are matched against) followed by "@ticker".
C18_ChannelIsNormalizedLower ==
    (exchange = "binance" /\ subscription # <<>>) =>
        \A i \in 1..Len(selected_pairs) :
            subscription[i]
                = Lower(cleaned_pair(selected_pairs[i])) \o <<"@","t","i","c","k","e","r">>

\* C21: when monitoring is started with nothing selected, no PriceMonitor
\* comes to exist: no thread, no event loop, no connection attempt, ever.
C21_EmptySelectionRejected ==
    selection = <<>> =>
        /\ pc = "none" /\ loop = "none" /\ conn = "none" /\ ~ws
        /\ gui \in {"viewer", "rejected"}
        /\ subscription = <<>>

\* C21 witness: monitoring was started with nothing selected and refused.
C21_Witness == selection = <<>> /\ gui = "rejected" /\ pc = "none"

\* C22: whenever the session is in the receive loop of a connection, exactly
\* one subscribe frame has been sent on that connection and it has one
\* channel for every selected instrument, built from its identifier; the
\* session enters the receive loop only by a successful send of that frame;
\* a failed connect or a failed send takes the reconnect handler, which
\* leaves the session Disconnected with no connection.
C22_SubscribeBeforeReceive ==
    [][/\ InReceiveLoop' =>
             /\ subscribes' = 1
             /\ Len(subscription') = Len(selected_pairs)
             /\ \A i \in 1..Len(selected_pairs) :
                    SubSeq(subscription'[i], 1, Len(selected_pairs[i]))
                        = IF exchange = "okx" THEN selected_pairs[i]
                          ELSE Lower(selected_pairs[i])
       /\ (~InReceiveLoop /\ InReceiveLoop') => (SubscribeOK /\ pc = "subscribing")
       /\ pc' = "subscribing" => subscribes' = 0
       /\ (ConnectFail \/ SubscribeFail) =>
             /\ pc' = (IF running THEN "retry_sleep" ELSE "outer_while")
             /\ conn' = "none" /\ connectionState' = "Disconnected"]_vars

\* C22 witness: the session receives on a connection made less than 5 s after
\* the previous one was given up, with its own subscribe frame sent.
C22_Witness ==
    /\ InReceiveLoop /\ conn = "open" /\ subscribes = 1
    /\ ws /\ sinceAbandon < RetryDelay /\ Len(updates) > 0

\* C25: a received frame adds at most one update.  A Venue A frame with
\* two tickers adds the update of the first one only; one with an empty data
\* array adds none, and the pause it causes ends within a second with the
\* session back in the receive loop of the same connection.  A Venue B ticker
\* whose symbol is the cleaned form of two selected instruments adds one
\* update, for the one selected first.
C25_AtMostOneUpdate ==
    [][/\ Len(updates') <= Len(updates) + 1
       /\ RecvOkx(OkxTwo(GoodOkx, OtherOkx)) =>
             /\ Len(updates') = Len(updates) + 1
             /\ updates'[Len(updates')].pair = GoodOkx.instId
             /\ updates'[Len(updates')].price = Float(GoodOkx.last)
       /\ RecvOkx(OkxEmpty) =>
             /\ updates' = updates
             /\ pc' = "err_sleep" /\ conn' = "open" /\ silence' = 0
       /\ (pc = "err_sleep" /\ conn = "open") => silence <= ErrSleep
       /\ (ErrSleepDone /\ conn = "open") => (pc' = "inner_while" /\ conn' = "open")
       /\ (exchange = "binance" /\ RecvBinance(BinanceFlat(GoodBinance))) =>
             /\ cleaned_pair(BTC_USDT_SWAP) = GoodBinance.s
             /\ cleaned_pair(BTC_USDT) = GoodBinance.s
             /\ Len(updates') = Len(updates) + 1
             /\ updates'[Len(updates')].pair = selected_pairs[1]]_vars

\* C25 witness: one Venue B frame (size 2) whose symbol two selected
\* instruments clean to has given one update, for the first of them.
C25_Witness ==
    /\ exchange = "binance" /\ traffic_bytes = 2
    /\ cleaned_pair(selected_pairs[3]) = cleaned_pair(selected_pairs[1])
    /\ Len(updates) = 1 /\ updates[1].pair = selected_pairs[1]

\* C26: the capacity of the history buffers is never below 1: it is 100
\* until start_monitoring has read the history points entry, and then the
\* entry's value if that is a positive integer, 100 otherwise (zero, negative,
\* not an integer).
C26_CapacityAtLeastOne ==
    /\ [](maxlen >= 1)
    /\ [](gui # "monitoring" => maxlen = max_history_points)
    /\ [][\A e \in HistoryEntries :
             start_monitoring(e) =>
                 maxlen' = IF e[1] /\ e[2] >= 1 THEN e[2] ELSE max_history_points]_vars

\* C26 witness: the entry 1 has replaced the default capacity.
C26_Witness == variant = "newstare" /\ gui = "monitoring" /\ maxlen = 1 /\ pc # "none"

\* C29 (as claimed): at either venue a text frame json.loads rejects adds no
\* update and leaves the session in its receive loop on the same open
\* connection.
C29_UndecodableDropped ==
    [][(RecvOkx(Undecodable) \/ RecvBinance(Undecodable)) =>
          /\ updates' = updates
          /\ conn' = "open"
          /\ InReceiveLoop']_vars

\* C30: in a Venue A session the count of pings grows only by the ping of
\* the receive-timeout handler; a received frame, whose check compares with
\* the last-message time just refreshed, leaves no ping counted.
C30_PingOnlyOnTimeout ==
    [][/\ probes' > probes => (exchange = "okx" /\ TimeoutPing(TRUE) /\ timer = RecvTimeout)
       /\ (exchange = "okx" /\ \E f \in LifecycleFrames : RecvOkx(f)) =>
             (probes' = 0 /\ silence' = 0)]_vars

\* C30 witness: a frame was received and, 5 s later, the timeout handler has
\* sent the only ping since.
C30_Witness ==
    /\ exchange = "okx" /\ variant = "stare" /\ conn = "open" /\ pc = "inner_while"
    /\ traffic_bytes > 0 /\ silence = RecvTimeout
    /\ timeouts = 1 /\ probes = 1

\* =========================================================================
\* Frame handling (SpecData): the session connects, subscribes and is fed
\* ticker frames back to back
\* =========================================================================
OkxNoLast == [instId |-> BTC_USDT_SWAP, open24h |-> "1", high24h |-> "2", low24h |-> "1"]
OkxNegative == [GoodOkx EXCEPT !.last = "-1"]
OkxNaN == [GoodOkx EXCEPT !.last = "nan"]
OkxText == [GoodOkx EXCEPT !.last = "abc"]
OkxLower == [GoodOkx EXCEPT !.last = "1", !.open24h = "2"]
OkxUnselected == [GoodOkx EXCEPT !.instId = DOGE_USDT]

BinanceNoLast == [e |-> "24hrTicker", s |-> BTCUSDT, o |-> "1", h |-> "2", l |-> "1"]
BinanceNegative == [GoodBinance EXCEPT !.c = "-1"]
BinanceText == [GoodBinance EXCEPT !.c = "abc"]
BinanceLong == [s |-> ETHUSDT, lastPrice |-> "1", openPrice |-> "2",
                highPrice |-> "2", lowPrice |-> "1"]
BinanceUnselected == [GoodBinance EXCEPT !.s = <<"X">>]
BinanceLongTyped == [e |-> "24hrTicker", s |-> ETHUSDT, lastPrice |-> "1", openPrice |-> "2",
                     highPrice |-> "2", lowPrice |-> "1"]
BinanceBare == [s |-> BTCUSDT, c |-> "2", o |-> "1", h |-> "2", l |-> "1"]

\* frames for a subscribed instrument without its last price
MissingLastFrames ==
    IF exchange = "okx" THEN {OkxTicker(OkxNoLast)} ELSE {BinanceFlat(BinanceNoLast)}

\* frames whose last price is negative or not finite
NegativeFrames ==
    IF exchange = "okx"
    THEN {OkxTicker(OkxNegative), OkxTicker(OkxNaN)}
    ELSE {BinanceFlat(BinanceNegative)}

DataFrames ==
    IF exchange = "okx"
    THEN {OkxTicker(t) : t \in {GoodOkx, OkxNoLast, OkxNegative, OkxNaN, OkxText,
                                 OkxLower, OkxUnselected}} \cup {OkxAck}
    ELSE {BinanceFlat(t) : t \in {GoodBinance, BinanceNoLast, BinanceNegative,
                                   BinanceText, BinanceUnselected}}
         \cup {BinanceWrapped(BinanceLong), BinanceAck}
         \cup {BinanceFlat(BinanceLongTyped), BinanceWrapped(GoodBinance),
               BinanceWrapped(BinanceBare), BinanceFlat(BinanceBare)}

NextData ==
    \/ run_async_loop
    \/ OuterWhile
    \/ StartConnect
    \/ ConnectOK
    \/ SubscribeOK
    \/ InnerWhile
    \/ \E f \in DataFrames : RecvOkx(f)
    \/ AppendTimestamp
    \/ \E f \in DataFrames : RecvBinance(f)
    \/ \E freq_ok \in BOOLEAN : start_monitoring_click(freq_ok)
    \/ \E e \in HistoryEntries : start_monitoring(e)
    \/ quit_app
    \/ LoopStopped

SpecData == Init /\ [][NextData]_vars

\* C8 (as claimed): a ticker frame for a subscribed instrument that lacks its
\* last price adds no DisplayUpdate and no history entry and leaves the
\* session receiving on the same connection.
C8_MissingLastDropped ==
    [][(\E f \in MissingLastFrames : RecvOkx(f) \/ RecvBinance(f)) =>
          /\ updates' = updates
          /\ price_history' = price_history
          /\ pc' \in {"inner_while", "recv"} /\ conn' = conn]_vars

\* C9 (as claimed): a ticker frame whose last price is negative or not finite
\* adds no DisplayUpdate and no history entry.
C9_NegativeRejected ==
    [][(\E f \in NegativeFrames : RecvOkx(f) \/ RecvBinance(f)) =>
          (updates' = updates /\ price_history' = price_history)]_vars

\* C12: the only steps that hand an update to the consumer are receptions of
\* a frame; each hands over at most one update, for the instrument and the
\* last price of the frame just received, after all the updates handed over
\* before it, which are kept as they were.
C12_OrderPreserved ==
    [][updates' # updates =>
          \E f \in DataFrames :
              /\ RecvOkx(f) \/ RecvBinance(f)
              /\ Len(updates') = Len(updates) + 1
              /\ SubSeq(updates', 1, Len(updates)) = updates
              /\ LET u == updates'[Len(updates')]
                     t == IF exchange = "okx" THEN f.obj.data[1]
                          ELSE binance_message_tickers(f)[1]
                 IN  IF exchange = "okx"
                     THEN u.pair = t.instId /\ u.price = Float(t.last)
                     ELSE /\ cleaned_pair(u.pair) = t.s
                          /\ u.price = Float(Get(t, "c", Get(t, "lastPrice", "0")))]_vars

\* C12 witness: two updates of one instrument, the price received first (2)
\* ahead of the price received second (1).
C12_Witness ==
    /\ Len(updates) = 2
    /\ updates[1].pair = BTC_USDT_SWAP /\ updates[2].pair = BTC_USDT_SWAP
    /\ updates[1].price = Float("2") /\ updates[2].price = Float("1")

\* C13 (as claimed): the history of an instrument never holds more prices
\* than its capacity and holds exactly the most recent min(n, capacity) of the
\* n prices accepted for the instrument so far, oldest first.
C13_HistoryIsRecentWindow ==
    variant = "newstare" =>
        \A p \in DOMAIN price_history :
            LET of_p(u) == u.pair = p
                accepted == SelectSeq(updates, of_p)
                n == Len(accepted)
                k == Min(n, maxlen)
            IN  /\ Len(price_history[p]) <= maxlen
                /\ price_history[p] = [i \in 1..k |-> accepted[n - k + i].price]

\* C19: a Venue B ticker whose symbol is BTCUSDT (ETHUSDT) is shown under the
\* selected identifier BTC-USDT-SWAP (ETHUSDT), and the complete BTCUSDT
\* ticker is shown; a ticker whose symbol belongs to no selected instrument
\* adds no update, does not reach the reconnect handler and leaves the
\* session receiving on the same connection in the same state.
C19_SymbolMapping ==
    [][\A f \in DataFrames :
          (RecvBinance(f) /\ binance_message_tickers(f) # <<>>) =>
              LET symbol == binance_message_tickers(f)[1].s
                  shown == updates' # updates
                  u == updates'[Len(updates')]
              IN  /\ (shown /\ symbol = BTCUSDT) => u.pair = BTC_USDT_SWAP
                  /\ (shown /\ symbol = ETHUSDT) => u.pair = ETHUSDT
                  /\ f = BinanceFlat(GoodBinance) => shown
                  /\ symbol \notin {BTCUSDT, ETHUSDT} =>
                        /\ ~shown
                        /\ pc' = "recv" /\ conn' = conn /\ sinceAbandon' = sinceAbandon
                        /\ connectionState' = connectionState]_vars

\* C19 witness: a BTCUSDT ticker was shown under BTC-USDT-SWAP and the
\* session is still receiving.
C19_Witness ==
    /\ exchange = "binance" /\ pc = "recv" /\ conn = "open"
    /\ Len(updates) = 1 /\ updates[1].pair = BTC_USDT_SWAP
    /\ updates[1].price = Float("2")

\* the complete Venue B tickers of a selected instrument: flat or wrapped
\* under data, with the short or the long field names
FlatTyped == {BinanceFlat(GoodBinance), BinanceFlat(BinanceLongTyped)}

FlatUntyped == {BinanceFlat(BinanceBare)}

Wrapped == {BinanceWrapped(GoodBinance), BinanceWrapped(BinanceBare),
            BinanceWrapped(BinanceLong)}

\* C20 (as claimed): every one of these frames, the flat object that carries
\* just s, c, o, h, l included, yields a DisplayUpdate.
C20_EveryShapeShown ==
    [][\A f \in FlatTyped \cup FlatUntyped \cup Wrapped :
          (exchange = "binance" /\ RecvBinance(f)) => Len(updates') = Len(updates) + 1]_vars

\* C20 (amended): a wrapped ticker and a flat ticker that carries
\* e = "24hrTicker" yield one DisplayUpdate each, with the short and with the
\* long field names; a flat object without that e yields none.
C20_TypedOrWrappedShown ==
    [][/\ \A f \in FlatTyped \cup Wrapped :
             (exchange = "binance" /\ RecvBinance(f)) =>
                 /\ Len(updates') = Len(updates) + 1
                 /\ updates'[Len(updates')].price
                       = Float(IF f \in {BinanceFlat(BinanceLongTyped), BinanceWrapped(BinanceLong)}
                               THEN "1" ELSE "2")
       /\ \A f \in FlatUntyped :
             (exchange = "binance" /\ RecvBinance(f)) => updates' = updates]_vars

\* C20 witness: a wrapped ticker with the long names (ETHUSDT, 1) and a flat
\* one with the short names (BTCUSDT, 2) were both shown.
C20_Witness ==
    /\ exchange = "binance" /\ Len(updates) = 2
    /\ updates[1].pair = ETHUSDT /\ updates[1].price = Float("1")
    /\ updates[2].pair = BTC_USDT_SWAP /\ updates[2].price = Float("2")

\* C24 (as claimed): once the thread of the session has been started, the
\* price history buffers (their contents and their capacity) change only by
\* the session receiving a frame.
C24_OnlySessionMutates ==
    [][(pc # "none" /\ <<price_history, maxlen>>' # <<price_history, maxlen>>)
          => \E f \in DataFrames : RecvOkx(f)]_vars

\* =========================================================================
\* The chart (SpecChart): the frame handling of SpecData with the periodic
\* update_chart of the GUI thread
\* =========================================================================

NextChart ==
    \/ NextData
    \/ update_chart

SpecChart == Init /\ [][NextChart]_vars

\* C28 (as claimed): for every instrument it plots, update_chart has read as
\* many timestamps as prices, the i-th timestamp being that of the ticker of
\* the i-th price.
C28_ChartSeesPairs ==
    \A p \in DOMAIN chart :
        chart[p] # <<>> =>
            /\ Len(chart[p][1]) = Len(chart[p][2])
            /\ \A i \in 1..Len(chart[p][1]) : chart[p][1][i].of = chart[p][2][i]

\* =========================================================================
\* The traffic readout (SpecTraffic): the frame handling of SpecData, started
\* with the counter at its first bytes or around one megabyte
\* =========================================================================

\* a stare.py session whose earlier frames, none of them a ticker of the
\* selection, have brought the counter to the megabyte
InitTraffic ==
    \E start \in {0} \cup ((MBThreshold * KB - MaxTraffic)..(MBThreshold * KB + MaxTraffic)) :
        /\ \E prog \in Programs : variant = prog[1] /\ exchange = prog[2]
        /\ selection \in {<<>>, selected_pairs}
        /\ running = TRUE
        /\ loop = "none"
        /\ stopping = FALSE
        /\ ws = FALSE
        /\ closeTask = FALSE
        /\ conn = "none"
        /\ pc = "none"
        /\ timer = 0
        /\ silence = 0
        /\ timeouts = 0
        /\ probes = 0
        /\ sinceAbandon = RetryDelay
        /\ sinceStop = 0
        /\ stops = 0
        /\ traffic_bytes = IF variant = "stare" THEN start ELSE 0
        /\ traffic_label = IF traffic_bytes = 0 THEN initial_label
                           ELSE traffic_readout(traffic_bytes)
        /\ updates = <<>>
        /\ price_history = [p \in {selected_pairs[i] : i \in 1..Len(selected_pairs)} |-> <<>>]
        /\ timestamp_history = price_history
        /\ stamp_due = <<>>
        /\ chart = price_history
        /\ maxlen = max_history_points
        /\ gui = "viewer"
        /\ subscription = <<>>
        /\ subscribes = 0

SpecTraffic == InitTraffic /\ [][NextData]_vars

\* C27: every frame that is counted rewrites the label from the counter, which
\* grows by the frame's size and by nothing else: the label reads the counter
\* in MB (two decimals) when it is above 1024 KB, in KB otherwise.
C27_ReadoutFromCounter ==
    [][/\ (variant = "stare" /\ traffic_bytes' # traffic_bytes) =>
             /\ \E f \in DataFrames :
                   /\ RecvOkx(f) \/ RecvBinance(f)
                   /\ traffic_bytes' = traffic_bytes + f.len
             /\ traffic_label'.decimals = 2
             /\ traffic_label'.unit = IF traffic_bytes' > 1024 * 1024 THEN "MB" ELSE "KB"
             /\ traffic_label'.unit = "KB" =>
                   /\ 2 * 1024 * traffic_label'.value >= 2 * 100 * traffic_bytes' - 1024
                   /\ 2 * 1024 * traffic_label'.value <= 2 * 100 * traffic_bytes' + 1024
             /\ traffic_label'.unit = "MB" =>
                   /\ 2 * 1048576 * traffic_label'.value >= 2 * 100 * traffic_bytes' - 1048576
                   /\ 2 * 1048576 * traffic_label'.value <= 2 * 100 * traffic_bytes' + 1048576
       /\ traffic_bytes' = traffic_bytes => traffic_label' = traffic_label]_vars

\* C27 witness: a ticker frame of two bytes has taken the counter across one
\* megabyte, and the label from KB to MB.
C27_Witness ==
    /\ variant = "stare" /\ pc = "recv"
    /\ traffic_bytes = 1024 * 1024 + 1
    /\ traffic_label = [value |-> 100, decimals |-> 2, unit |-> "MB"]
    /\ Len(updates) = 1

\* =========================================================================
\* Price display (SpecPrice): the session is fed tickers whose last and open
\* prices range over the classes of format_price and calculate_change
\* =========================================================================
FormatInputs == {"-1", "nan", "0.00005", "0.0001", "0.99995", "1", "999.99995", "1000"}

ChangeLast == {"90", "100", "110"}

NoOpen == {"0", "-1", "nan"}

\* the <<last, open>> pairs of the tickers
PricePairs ==
    (FormatInputs \X {"1"}) \cup (ChangeLast \X {"100"}) \cup ({"110"} \X NoOpen)

PriceFrames ==
    IF exchange = "okx"
    THEN {OkxTicker([GoodOkx EXCEPT !.last = lo[1], !.open24h = lo[2]]) : lo \in PricePairs}
    ELSE {BinanceFlat([GoodBinance EXCEPT !.c = lo[1], !.o = lo[2]]) : lo \in PricePairs}

\* the last and open prices of the ticker of a frame of PriceFrames
last_of(f) == IF exchange = "okx" THEN Float(f.obj.data[1].last) ELSE Float(f.obj.c)

open_of(f) == IF exchange = "okx" THEN Float(f.obj.data[1].open24h) ELSE Float(f.obj.o)

NextPrice ==
    \/ run_async_loop
    \/ OuterWhile
    \/ StartConnect
    \/ ConnectOK
    \/ SubscribeOK
    \/ InnerWhile
    \/ \E f \in PriceFrames : RecvOkx(f)
    \/ AppendTimestamp
    \/ \E f \in PriceFrames : RecvBinance(f)
    \/ \E freq_ok \in BOOLEAN : start_monitoring_click(freq_ok)
    \/ \E e \in HistoryEntries : start_monitoring(e)
    \/ quit_app
    \/ LoopStopped

SpecPrice == Init /\ [][NextPrice]_vars

\* C15: the update of a ticker shows its price with 2 decimals and thousands
\* grouping when the price is at least 1000, with 4 decimals from 1 up to
\* 1000, with 6 decimals from 0.0001 up to 1 and with 8 decimals otherwise
\* (below 0.0001, negative, not a number); 1000, 1 and 0.0001 belong to the
\* upper class.
C15_DecimalsByMagnitude ==
    \A i \in 1..Len(updates) :
        LET p == updates[i].price
            shown == updates[i].formatted
            number == p # NaN
        IN  /\ shown.grouping = (shown.decimals = 2)
            /\ shown.decimals =
                  CASE number /\ p >= 1000 * Unit -> 2
                    [] number /\ p >= Unit /\ p < 1000 * Unit -> 4
                    [] number /\ 10000 * p >= Unit /\ p < Unit -> 6
                    [] OTHER -> 8

\* C15 witness: the prices 1000 and 0.0001 were shown with 2 and 6 decimals.
C15_Witness ==
    /\ Len(updates) = 2
    /\ updates[1].price = Float("1000") /\ updates[1].formatted.decimals = 2
    /\ updates[2].price = Float("0.0001") /\ updates[2].formatted.decimals = 6

\* C16: for a ticker whose open price is positive the update carries the
\* change (last - open) / open * 100 and shows a rise (change > 0) as green
\* with a "+", a fall (change < 0) as red with a "-" and no change as red
\* without a sign, so that the three cases differ in what is shown; last 110
\* and 90 against open 100 give 10 and -10.
C16_ChangeClassified ==
    [][\A f \in PriceFrames :
          ((RecvOkx(f) \/ RecvBinance(f)) /\ Gt(open_of(f), 0)) =>
              LET u == updates'[Len(updates')]
                  last == last_of(f)
                  open == open_of(f)
              IN  /\ Len(updates') = Len(updates) + 1
                  /\ last # NaN =>
                        /\ u.percent = <<(last - open) * 100, open>>
                        /\ <<u.sign, u.color>> =
                              CASE last > open -> <<"+", "green">>
                                [] last < open -> <<"-", "red">>
                                [] OTHER -> <<"", "red">>
                        /\ (last = Float("110") /\ open = Float("100"))
                              => u.percent[1] = 10 * u.percent[2]
                        /\ (last = Float("90") /\ open = Float("100"))
                              => u.percent[1] = (0 - 10) * u.percent[2]]_vars

\* C16 witness: a fall and no change were shown, one after the other.
C16_Witness ==
    /\ Len(updates) = 2
    /\ updates[1].price = Float("90") /\ updates[1].sign = "-"
    /\ updates[2].price = Float("100") /\ updates[2].sign = ""
    /\ updates[1].percent # <<>> /\ updates[2].percent # <<>>

\* C17: for a ticker whose open price is not greater than 0 (zero, negative,
\* not a number) the update carries no percent and no sign and is black,
\* which no update with a percent is.
C17_NoPercentWithoutOpen ==
    [][\A f \in PriceFrames :
          ((RecvOkx(f) \/ RecvBinance(f)) /\ ~Gt(open_of(f), 0)) =>
              LET u == updates'[Len(updates')]
              IN  /\ Len(updates') = Len(updates) + 1
                  /\ u.percent = <<>> /\ u.sign = ""
                  /\ u.color = "black"
                  /\ \A i \in 1..Len(updates') :
                         updates'[i].percent # <<>> => updates'[i].color # "black"]_vars

\* C17 witness: an update with a percent is followed by one without.
C17_Witness ==
    /\ Len(updates) = 2
    /\ updates[1].percent # <<>> /\ updates[1].color = "green"
    /\ updates[2].percent = <<>> /\ updates[2].color = "black"
    /\ updates[2].price = Float("110")

\* =========================================================================
\* Retry policy (SpecLive): the event loop runs every callback that is ready
\* and time passes
\* =========================================================================
\* no frame here carries a ticker, so no handler reaches its appends
LiveFrames ==
    IF exchange = "okx"
    THEN {OkxAck, Undecodable}
    ELSE {BinanceAck, Undecodable, BinanceClosed}

\* the steps the thread of the session takes by itself
SessionStep ==
    \/ run_async_loop
    \/ OuterWhile
    \/ StartConnect
    \/ ConnectOK
    \/ ConnectFail
    \/ SubscribeOK
    \/ SubscribeFail
    \/ InnerWhile
    \/ \E sent \in BOOLEAN : TimeoutPing(sent)
    \/ RecvOnClosed
    \/ ErrSleepDone
    \/ RetrySleepDone
    \/ HeartbeatTimer
    \/ LoopStopped

NextLive ==
    \/ SessionStep
    \/ \E f \in LiveFrames : RecvOkx(f)
    \/ \E f \in LiveFrames : RecvBinance(f)
    \/ TransportError
    \/ RecvErrorBinance
    \/ \E freq_ok \in BOOLEAN : start_monitoring_click(freq_ok)
    \/ \E e \in HistoryEntries : start_monitoring(e)
    \/ quit_app
    \/ Tick

SpecLive == Init /\ [][NextLive]_vars /\ WF_vars(Tick) /\ WF_vars(SessionStep)

\* a failure after which the connection (attempt) is given up: the reconnect
\* handler or a break was reached, or ws.recv() raised a transport error
RetryPending ==
    \/ pc \in {"retry_sleep", "outer_while"}
    \/ exchange = "okx" /\ InReceiveLoop /\ conn = "closed"

\* C3 (as claimed, for a Venue A decode error): a frame that raised in the
\* receive loop is followed by a new connection attempt, unless the session is
\* stopped or the link goes silent beyond the dead-link threshold.
C3_DecodeErrorReconnects ==
    (exchange = "okx" /\ pc = "err_sleep" /\ conn = "open")
        ~> (pc = "connecting" \/ ~running \/ silence > DeadLink)

\* C3 (amended): only quit_app ends the session, and every failure that gives
\* up a connection or an attempt is followed by a new connection attempt
\* unless the session is stopped first.
C3_RetryForever ==
    /\ [](pc \in Finished => ~running)
    /\ RetryPending ~> (pc = "connecting" \/ ~running)

\* C3 witness: a connection attempt is under way right after a connection was
\* given up.
C3_Witness ==
    running /\ pc = "connecting" /\ ws /\ sinceAbandon < RetryDelay

\* a connection of a Venue A session was just left by a break
JustLeft == exchange = "okx" /\ pc = "outer_while" /\ conn = "none" /\ sinceAbandon = 0

\* C23: when the ping of a receive timeout cannot be sent, the session leaves
\* the connection at once (Disconnected, no connection, nothing handed to the
\* consumer) and, unless quit_app intervenes, starts a new connection attempt.
C23_ProbeFailureAbandons ==
    /\ [][TimeoutPing(FALSE) =>
             /\ JustLeft' /\ connectionState' = "Disconnected"
             /\ updates' = updates /\ traffic_bytes' = traffic_bytes]_vars
    /\ [][(JustLeft /\ running /\ pc' # pc) => pc' = "connect_call"]_vars
    /\ JustLeft ~> (pc = "connecting" \/ ~running)

\* C23 witness: a Venue A connection was left without a pause and the next
\* connection attempt is under way.
C23_Witness ==
    /\ exchange = "okx" /\ running /\ ws
    /\ pc = "connecting" /\ conn = "none" /\ sinceAbandon = 0 /\ traffic_bytes = 0
====
